---- MODULE Spec2Model ----
(***************************************************************************)
(* Account provisioning of the transport-dispatch front end: the           *)
(* UserRegistration and AdminRegistration components, the AdminManagement  *)
(* roster and the AdminDashboard panel gate, over an identity provider     *)
(* (Firebase auth) and a document store (Firestore).                       *)
(*                                                                         *)
(* Every `await` of a handler is one step of the model: the step is the    *)
(* resolution of the awaited remote call together with the synchronous     *)
(* code that follows it up to the next await.  A field whose value is      *)
(* `undefined` in a merge-write is not written (the code's own comment     *)
(* "Keep original date if possible" relies on that).                       *)
(***************************************************************************)
EXTENDS Naturals, Sequences, FiniteSets, Bags, TLC

\* ------------------------------------------------------------------ bounds
MaxClock == 2
MaxAttempts == 3
MaxRosterOps == 2
MaxFlight == 2
\* the calls of onNavigate a dashboard makes
MaxNavigations == 2

\* ------------------------------------------------------------- value sets
\* a session is one browser: its auth state, and the AdminRegistration and
\* UserRegistration forms it shows; one handler runs in it at a time
Sessions == {"S1", "S2"}

Emails == {"a@x.io", "b@x.io"}
UidOf(email) == IF email = "a@x.io" THEN "uidA" ELSE "uidB"
Uids == {UidOf(e) : e \in Emails}
DocIds == Uids \cup Emails

Passwords == {"secret1", "hunter22", "abc"}
FormCodes == {"ADMIN2025", "abcde"}
NewCodes == {"abcd", "abcde", "vwxyz"}

Undefined == "<undefined>"
Null == "<null>"
ISO == <<"2025-01-01T00:00:01Z", "2025-01-01T00:00:02Z", "2025-01-01T00:00:03Z",
         "2025-01-01T00:00:04Z", "2025-01-01T00:00:05Z">>
toISOString(t) == ISO[t]

FALLBACK_CODE == "ADMIN2025"

\* messages of AdminRegistration
ErrInvalidCode == "Invalid Admin Access Code."
ErrPwMismatch == "Passwords do not match."
ErrWeakPw == "Password must be at least 6 characters."
ErrBanned == "This account exists but has been BANNED."
ErrIncorrect == "This email is already registered, but the password was incorrect. Please Log In."
ErrFailed == "Failed to register. "
\* err.message of a rejection that is not email-already-in-use; "" is an error
\* whose message is empty (for err?.message || ..., the same as no message)
ErrorMessages == {"Firebase: Error (auth/network-request-failed).", ""}
\* 'Failed to register. ' + (err?.message || 'Unknown error')
FailedMessage(message) ==
  ErrFailed \o (IF message = "" THEN "Unknown error" ELSE message)
ErrGoogleCode == "Please enter the correct Admin Access Code above before connecting with Gmail."
ErrGoogleBanned == "ACCESS DENIED: This account has been banned."
ErrGoogleFailed == "Google registration failed. "
\* 'Google registration failed. ' + (err?.message || 'Unknown error')
GoogleFailedMessage(message) ==
  ErrGoogleFailed \o (IF message = "" THEN "Unknown error" ELSE message)
AlertAdminCreated == "Admin registration successful!"
AlertRestored == "Existing account found. Profile restored successfully!"
\* messages of UserRegistration
ErrUPwMismatch == "Passwords do not match!"
ErrUWeakPw == "Password must be at least 6 characters long."
ErrUExists == "This email is already registered. Please Log In."
ErrUOther == "Error: "
ErrUGoogle == "Google sign-up failed: "
\* 'Error: ' + err.message
UserOtherMessage(message) == ErrUOther \o message
\* 'Google sign-up failed: ' + err.message
UserGoogleMessage(message) == ErrUGoogle \o message
AlertUserCreated == "Registration successful! Please Log In."
AlertUserGoogle == "Google Registration successful!"

ValidationErrors == {ErrInvalidCode, ErrPwMismatch, ErrWeakPw, ErrGoogleCode}

\* the administrator who operates AdminManagement (its `user` prop)
CallerEmail == "a@x.io"

\* ---------------------------------------------------------------- state
VARIABLES
  idp,        \* identity provider: email -> [uid, password, displayName]
  users,      \* collection "users": doc id -> fields
  settings,   \* collection "settings": doc id -> fields
  clock,      \* number of `new Date()` values handed out so far
  lastWrite,  \* per users doc id: the operation whose write it last took
  sess,       \* per session: the component state and the handler in flight
  ui          \* the AdminManagement component

vars == <<idp, users, settings, clock, lastWrite, sess, ui>>

\* ------------------------------------------------------------ the store
ProfileFields == {"uid", "email", "name", "phone", "role", "status",
                  "authProvider", "createdAt", "restoredAt"}
EmptyDoc == [f \in ProfileFields |-> Undefined]

\* { merge: true }: the fields given overwrite, the others stay
MergeFields(old, data) ==
  [f \in DOMAIN old |-> IF data[f] # Undefined THEN data[f] ELSE old[f]]

\* setDoc(doc(db, coll, id), data, { merge: true })
SetDocMerge(coll, id, data, empty) ==
  IF id \in DOMAIN coll
    THEN [coll EXCEPT ![id] = MergeFields(coll[id], data)]
    ELSE [d \in DOMAIN coll \cup {id} |->
            IF d = id THEN MergeFields(empty, data) ELSE coll[d]]

\* getDoc(ref): exists()
DocExists(coll, id) == id \in DOMAIN coll

\* ----------------------------------------------------- identity provider
NoUser == [uid |-> Null, email |-> Null, displayName |-> Null]
UserOf(ids, email) == [uid |-> ids[email].uid, email |-> email,
                       displayName |-> ids[email].displayName]

\* createUserWithEmailAndPassword, or the first signInWithPopup of an account
NewIdentity(ids, email, password, displayName) ==
  [e \in DOMAIN ids \cup {email} |->
     IF e = email
       THEN [uid |-> UidOf(email), password |-> password, displayName |-> displayName]
       ELSE ids[e]]

\* signInWithEmailAndPassword accepts the password the identity was created with
LoginAccepts(ids, email, password) ==
  email \in DOMAIN ids /\ ids[email].password = password

\* -------------------------------------------------------- session state
\* the forms submitted: every valid one, and for one email every way to fail
AdminForms ==
  { f \in [email : Emails, password : Passwords, confirmPassword : Passwords,
           adminCode : FormCodes, fullName : {""}, phone : {""}] :
      \/ f.password = f.confirmPassword /\ f.password # "abc"
           /\ f.adminCode = FALLBACK_CODE /\ (f.email = "b@x.io" \/ f.password = "secret1")
      \/ f.email = "b@x.io" /\ f.adminCode = FALLBACK_CODE
           /\ <<f.password, f.confirmPassword>>
                \in {<<"secret1", "hunter22">>, <<"abc", "abc">>, <<"abc", "secret1">>}
      \/ f.email = "b@x.io" /\ f.adminCode # FALLBACK_CODE
           /\ <<f.password, f.confirmPassword>> \in {<<"secret1", "secret1">>, <<"abc", "secret1">>} }
UserForms ==
  { f \in [email : Emails, password : Passwords, confirmPassword : Passwords,
           adminCode : {""}, fullName : {"", "Ann"}, phone : {"", "0771"}] :
      \/ f.email = "b@x.io" /\ f.password = "secret1" /\ f.confirmPassword = "secret1"
           /\ (f.fullName = "") = (f.phone = "")
      \/ f.email = "b@x.io" /\ f.fullName = "" /\ f.phone = ""
           /\ <<f.password, f.confirmPassword>> \in {<<"secret1", "hunter22">>, <<"abc", "abc">>} }
BlankForm == [email |-> "", password |-> "", confirmPassword |-> "",
              adminCode |-> "", fullName |-> "", phone |-> ""]

\* handleGoogleSignup reads only fullName and phone of the form
UserGoogleForms ==
  {[BlankForm EXCEPT !.fullName = "", !.phone = ""],
   [BlankForm EXCEPT !.fullName = "Ann", !.phone = "0771"]}

InitSession ==
  [pc |-> "idle",               \* the await the handler is suspended at
   formData |-> BlankForm,      \* the form as last submitted
   error |-> "",                \* useState error
   loading |-> FALSE,           \* useState loading
   systemAdminCode |-> Null,    \* AdminRegistration: useState systemAdminCode
   loadingCode |-> TRUE,        \* AdminRegistration: useState loadingCode
   currentUser |-> Null,        \* auth.currentUser (a uid)
   cred |-> NoUser,             \* the user of the credential in hand
   payload |-> EmptyDoc,        \* the data of the setDoc in flight
   alertMsg |-> "",             \* alert() shown by the current attempt
   onRegisterCalls |-> 0,       \* onRegister() calls of the current attempt
   calls |-> {},                \* remote calls issued by the current attempt
   banRead |-> Null,            \* status read by the attempt's ban check
   banReadAfter |-> Null,       \* the operation that had last written that profile
   writeResult |-> "none",      \* how the attempt's profile write ended
   prevDenied |-> FALSE,        \* the previous attempt ended at the ban check
   handler |-> Null,            \* the handler of the current attempt
   attempts |-> 0,              \* handler runs so far
   codeRead |-> "none",         \* how fetchAdminCode's read ended
   caught |-> Null,             \* err.message in the outer catch of handleSubmit
   fault |-> Null,              \* the remote call of the attempt that the network failed
   newEmail |-> FALSE,          \* the form's email had no identity when the attempt began
   late |-> {},                 \* writes of saveUserProfile still in flight after their timer
   dashLoading |-> TRUE,        \* AdminDashboard: useState loading
   dpc |-> "vehicles",          \* AdminDashboard: the await its fetchData is suspended at
   pendingRequests |-> 0,       \* AdminDashboard: pendingRequests.length
   showSecurityModal |-> FALSE, \* AdminDashboard: useState showSecurityModal
   securityCode |-> "",         \* AdminDashboard: useState securityCode
   securityError |-> "",        \* AdminDashboard: useState securityError
   onNavigateCalls |-> <<>>,    \* AdminDashboard: the screens onNavigate was called with
   loadedAt |-> 0]              \* rotations accepted when fetchAdminCode read

InitUi ==
  [admins |-> <<>>,             \* useState admins: doc id -> [email, status]
   globalRegKey |-> "Loading...",
   loading |-> TRUE,
   actionType |-> Null,
   selectedAdmin |-> Null,      \* the id of the entry selected
   errorMsg |-> "",
   mpc |-> "getDocs",           \* the await fetchData is suspended at
   ops |-> 0,                   \* mounts and modals opened so far
   newValueInput |-> "",        \* useState newValueInput
   sets |-> <<>>,               \* the codes the store accepted, in order
   flight |-> EmptyBag,         \* the writes of handleExecute awaited, with their closures
   lastExec |-> <<>>]           \* last ban/unban applied: <<id, status before, after>>

Init ==
  /\ idp = <<>>
  /\ users = <<>>
  /\ settings = <<>>
  /\ clock = 0
  /\ lastWrite = [d \in DocIds |-> "none"]
  /\ sess = [s \in Sessions |-> InitSession]
  /\ ui = InitUi

\* every handler run starts a new attempt: setError(''), and what the previous
\* attempt showed is gone
Begin(r, form, handler) ==
  [r EXCEPT !.formData = form, !.handler = handler, !.error = "", !.alertMsg = "",
            !.onRegisterCalls = 0, !.calls = {}, !.banRead = Null, !.caught = Null,
            !.fault = Null, !.newEmail = (form.email \notin DOMAIN idp),
            !.banReadAfter = Null, !.writeResult = "none",
            !.prevDenied = (r.banRead = "banned" /\ r.pc = "idle"
                            /\ r.error \in {ErrBanned, ErrGoogleBanned}),
            !.attempts = @ + 1]

\* setError(msg); setLoading(false); the handler returns
Finish(r, msg) ==
  [r EXCEPT !.error = msg, !.loading = FALSE, !.pc = "idle",
            !.payload = EmptyDoc, !.cred = NoUser]

\* alert(msg) (none when msg = ""); onRegister(); finally setLoading(false)
Succeed(r, msg) ==
  [r EXCEPT !.alertMsg = msg, !.onRegisterCalls = @ + 1, !.loading = FALSE,
            !.pc = "idle", !.payload = EmptyDoc, !.cred = NoUser]

\* the await a handler moves to, and the remote call it issues there
Await(r, label, call) == [r EXCEPT !.pc = label, !.calls = @ \cup {call}]

CanStart(s) == sess[s].pc = "idle" /\ sess[s].attempts < MaxAttempts


\* ------------------------------------------------- AdminRegistration
\* fetchAdminCode that never reads the record
ExpectedCodeFallbackOnly(coll) == FALLBACK_CODE

\* fetchAdminCode: the record's key, or the fallback when the record or the
\* key is missing
ExpectedCode(coll) ==
  IF DocExists(coll, "admin_config")
       /\ coll["admin_config"].registrationKey \notin {Undefined, ""}
    THEN coll["admin_config"].registrationKey
    ELSE FALLBACK_CODE

\* handleSubmit without the check of the password length
ValidateAdminNoLength(form, expected) ==
  IF form.adminCode # expected THEN ErrInvalidCode
  ELSE IF form.password # form.confirmPassword THEN ErrPwMismatch
  ELSE ""

\* the checks with the length of the password tested before the confirmation
ValidateAdminLengthFirst(form, expected) ==
  IF form.adminCode # expected THEN ErrInvalidCode
  ELSE IF Len(form.password) < 6 THEN ErrWeakPw
  ELSE IF form.password # form.confirmPassword THEN ErrPwMismatch
  ELSE ""

\* the three checks of handleSubmit, in the order of the code
ValidateAdmin(form, expected) ==
  IF form.adminCode # expected THEN ErrInvalidCode
  ELSE IF form.password # form.confirmPassword THEN ErrPwMismatch
  ELSE IF Len(form.password) < 6 THEN ErrWeakPw
  ELSE ""

\* the profile keyed by the email instead of the uid
ProfileKeyByEmail(user) == user.email

\* the document a profile write goes to: doc(db, "users", user.uid)
ProfileKey(user) == user.uid

\* setupAdminProfile that stamps createdAt on a restore too
AdminProfileDataRestamped(user, isRestore, now) ==
  [EmptyDoc EXCEPT
     !.uid = user.uid,
     !.email = user.email,
     !.role = "admin",
     !.status = "active",
     !.createdAt = toISOString(now),
     !.restoredAt = IF isRestore THEN toISOString(now) ELSE Undefined]

\* the data of setupAdminProfile(user, isRestore)
AdminProfileData(user, isRestore, now) ==
  [EmptyDoc EXCEPT
     !.uid = user.uid,
     !.email = user.email,
     !.role = "admin",
     !.status = "active",
     !.createdAt = IF isRestore THEN Undefined ELSE toISOString(now),
     !.restoredAt = IF isRestore THEN toISOString(now) ELSE Undefined]

\* the ban check that takes a missing profile for a banned one
IsBannedOrMissing(coll, uid) ==
  IF DocExists(coll, uid) THEN coll[uid].status = "banned" ELSE TRUE

\* the ban check of both admin paths
IsBanned(coll, uid) == DocExists(coll, uid) /\ coll[uid].status = "banned"

\* what a ban check that read the profile saw
ReadStatus(coll, uid) == IF DocExists(coll, uid) THEN coll[uid].status ELSE "missing"

\* the store applies the profile write in flight
ApplyProfileWrite(s, kind) ==
  /\ users' = SetDocMerge(users, ProfileKey(sess[s].cred), sess[s].payload, EmptyDoc)
  /\ lastWrite' = [lastWrite EXCEPT ![ProfileKey(sess[s].cred)] = kind]

\* useEffect: getDoc(settings/admin_config) resolves
FetchAdminCodeOk(s) ==
  /\ sess[s].loadingCode
  /\ sess' = [sess EXCEPT ![s] = [@ EXCEPT !.systemAdminCode = ExpectedCode(settings),
                                           !.loadingCode = FALSE,
                                           !.codeRead = "ok",
                                           !.loadedAt = Len(ui.sets)]]
  /\ UNCHANGED <<idp, users, settings, clock, lastWrite, ui>>

\* useEffect: getDoc rejects
FetchAdminCodeFail(s) ==
  /\ sess[s].loadingCode
  /\ sess' = [sess EXCEPT ![s] = [@ EXCEPT !.systemAdminCode = FALLBACK_CODE,
                                           !.loadingCode = FALSE,
                                           !.codeRead = "failed",
                                           !.loadedAt = Len(ui.sets)]]
  /\ UNCHANGED <<idp, users, settings, clock, lastWrite, ui>>

\* handleSubmit that reads the record again instead of using the captured code
AdminSubmitFreshCode(s, form) ==
  /\ CanStart(s)
  /\ sess' = [sess EXCEPT ![s] =
       IF sess[s].loadingCode THEN Begin(@, form, "handleSubmit")
       ELSE IF ValidateAdmin(form, ExpectedCode(settings)) # ""
         THEN [Begin(@, form, "handleSubmit") EXCEPT
                 !.error = ValidateAdmin(form, ExpectedCode(settings))]
         ELSE Await([Begin(@, form, "handleSubmit") EXCEPT !.loading = TRUE],
                    "creating", "createIdentity")]
  /\ UNCHANGED <<idp, users, settings, clock, lastWrite, ui>>

\* handleSubmit up to createUserWithEmailAndPassword
AdminSubmit(s, form) ==
  /\ CanStart(s)
  /\ sess' = [sess EXCEPT ![s] =
       IF sess[s].loadingCode THEN Begin(@, form, "handleSubmit")
       ELSE IF ValidateAdmin(form, sess[s].systemAdminCode) # ""
         THEN [Begin(@, form, "handleSubmit") EXCEPT
                 !.error = ValidateAdmin(form, sess[s].systemAdminCode)]
         ELSE Await([Begin(@, form, "handleSubmit") EXCEPT !.loading = TRUE],
                    "creating", "createIdentity")]
  /\ UNCHANGED <<idp, users, settings, clock, lastWrite, ui>>

\* createUserWithEmailAndPassword resolves; setupAdminProfile(user) is called
AdminCreateOk(s) ==
  /\ sess[s].pc = "creating"
  /\ sess[s].formData.email \notin DOMAIN idp
  /\ clock < MaxClock
  /\ idp' = NewIdentity(idp, sess[s].formData.email, sess[s].formData.password, Null)
  /\ clock' = clock + 1
  /\ sess' = [sess EXCEPT ![s] =
       Await([@ EXCEPT !.currentUser = UidOf(sess[s].formData.email),
                       !.cred = UserOf(idp', sess[s].formData.email),
                       !.payload = AdminProfileData(
                          UserOf(idp', sess[s].formData.email), FALSE, clock + 1)],
             "setupNew", "setDoc")]
  /\ UNCHANGED <<users, settings, lastWrite, ui>>

\* email-already-in-use handled like any other code: a failed registration
AdminCreateConflictFailed(s) ==
  /\ sess[s].pc = "creating"
  /\ sess[s].formData.email \in DOMAIN idp
  /\ sess' = [sess EXCEPT ![s] = Finish(@, FailedMessage(""))]
  /\ UNCHANGED <<idp, users, settings, clock, lastWrite, ui>>

\* it rejects with auth/email-already-in-use; signInWithEmailAndPassword is called
AdminCreateConflict(s) ==
  /\ sess[s].pc = "creating"
  /\ sess[s].formData.email \in DOMAIN idp
  /\ sess' = [sess EXCEPT ![s] = Await(@, "login", "login")]
  /\ UNCHANGED <<idp, users, settings, clock, lastWrite, ui>>

\* any other rejection taken for email-already-in-use: the login is tried
AdminCreateFailTriesLogin(s) ==
  /\ sess[s].pc = "creating"
  /\ sess' = [sess EXCEPT ![s] = Await(@, "login", "login")]
  /\ UNCHANGED <<idp, users, settings, clock, lastWrite, ui>>

\* it rejects with any other code
AdminCreateFail(s) ==
  /\ sess[s].pc = "creating"
  /\ \E message \in ErrorMessages :
       sess' = [sess EXCEPT ![s] =
         Finish([@ EXCEPT !.caught = message, !.fault = "createIdentity"],
                FailedMessage(message))]
  /\ UNCHANGED <<idp, users, settings, clock, lastWrite, ui>>

\* the store loses a profile write: its promise never settles
StoreNeverResolves(s) ==
  /\ sess[s].pc \in {"setupNew", "setupRestore", "gSetup", "uSave", "uSaveG"}
  /\ sess[s].writeResult = "none"
  /\ sess' = [sess EXCEPT ![s] = [@ EXCEPT !.writeResult = "hung"]]
  /\ UNCHANGED <<idp, users, settings, clock, lastWrite, ui>>

WritePending(s, label) == sess[s].pc = label /\ sess[s].writeResult = "none"

\* setupAdminProfile(user) resolves
AdminSetupNewOk(s) ==
  /\ WritePending(s, "setupNew")
  /\ ApplyProfileWrite(s, "admin-new")
  /\ sess' = [sess EXCEPT ![s] =
       Succeed([@ EXCEPT !.writeResult = "ok"], AlertAdminCreated)]
  /\ UNCHANGED <<idp, settings, clock, ui>>

\* the rejected write followed by alert and onRegister all the same
AdminSetupNewFailSignals(s) ==
  /\ WritePending(s, "setupNew")
  /\ sess' = [sess EXCEPT ![s] =
       Succeed([@ EXCEPT !.writeResult = "rejected", !.fault = "setDoc"],
               AlertAdminCreated)]
  /\ UNCHANGED <<idp, users, settings, clock, lastWrite, ui>>

\* it rejects: the outer catch, with a code that is not email-already-in-use
AdminSetupNewFail(s) ==
  /\ WritePending(s, "setupNew")
  /\ \E message \in ErrorMessages :
       sess' = [sess EXCEPT ![s] =
         Finish([@ EXCEPT !.writeResult = "rejected", !.caught = message,
                          !.fault = "setDoc"],
                FailedMessage(message))]
  /\ UNCHANGED <<idp, users, settings, clock, lastWrite, ui>>

\* signInWithEmailAndPassword resolves; getDoc of the profile is called
AdminLoginOk(s) ==
  /\ sess[s].pc = "login"
  /\ LoginAccepts(idp, sess[s].formData.email, sess[s].formData.password)
  /\ sess' = [sess EXCEPT ![s] =
       Await([@ EXCEPT !.currentUser = idp[sess[s].formData.email].uid,
                       !.cred = UserOf(idp, sess[s].formData.email)],
             "banCheck", "getDoc")]
  /\ UNCHANGED <<idp, users, settings, clock, lastWrite, ui>>

\* the login failure left to the outer catch, which reports a failed registration
AdminLoginWrongPasswordOuterCatch(s) ==
  /\ sess[s].pc = "login"
  /\ ~LoginAccepts(idp, sess[s].formData.email, sess[s].formData.password)
  /\ sess' = [sess EXCEPT ![s] = Finish(@, ErrFailed)]
  /\ UNCHANGED <<idp, users, settings, clock, lastWrite, ui>>

\* it rejects: the password is not the identity's
AdminLoginWrongPassword(s) ==
  /\ sess[s].pc = "login"
  /\ ~LoginAccepts(idp, sess[s].formData.email, sess[s].formData.password)
  /\ sess' = [sess EXCEPT ![s] = Finish(@, ErrIncorrect)]
  /\ UNCHANGED <<idp, users, settings, clock, lastWrite, ui>>

\* it rejects for another reason (the provider cannot be reached)
AdminLoginUnavailable(s) ==
  /\ sess[s].pc = "login"
  /\ sess' = [sess EXCEPT ![s] = Finish([@ EXCEPT !.fault = "login"], ErrIncorrect)]
  /\ UNCHANGED <<idp, users, settings, clock, lastWrite, ui>>

\* the ban check read the profile
BanChecked(r, uid) ==
  [r EXCEPT !.banRead = ReadStatus(users, uid), !.banReadAfter = lastWrite[uid]]

\* signOut resolved: auth.currentUser is null; setError(msg); setLoading(false); return
Deny(r, msg) == Finish([r EXCEPT !.currentUser = Null], msg)

\* getDoc resolves with a banned profile: signOut(auth) is called and awaited
AdminBanCheckDenied(s) ==
  /\ sess[s].pc = "banCheck"
  /\ IsBanned(users, sess[s].cred.uid)
  /\ sess' = [sess EXCEPT ![s] =
       Await(BanChecked(@, sess[s].cred.uid), "signOut", "signOut")]
  /\ UNCHANGED <<idp, users, settings, clock, lastWrite, ui>>

\* signOut resolves: the banned message, and the handler returns
AdminSignOutOk(s) ==
  /\ sess[s].pc = "signOut"
  /\ sess' = [sess EXCEPT ![s] = Deny(@, ErrBanned)]
  /\ UNCHANGED <<idp, users, settings, clock, lastWrite, ui>>

\* signOut rejects: the inner catch; the user stays signed in
AdminSignOutFail(s) ==
  /\ sess[s].pc = "signOut"
  /\ sess' = [sess EXCEPT ![s] = Finish([@ EXCEPT !.fault = "signOut"], ErrIncorrect)]
  /\ UNCHANGED <<idp, users, settings, clock, lastWrite, ui>>

\* getDoc resolves with no profile or one not banned: setupAdminProfile(user, true)
AdminBanCheckPass(s) ==
  /\ sess[s].pc = "banCheck"
  /\ ~IsBanned(users, sess[s].cred.uid)
  /\ clock < MaxClock
  /\ clock' = clock + 1
  /\ sess' = [sess EXCEPT ![s] =
       Await([BanChecked(@, sess[s].cred.uid) EXCEPT
                !.payload = AdminProfileData(sess[s].cred, TRUE, clock + 1)],
             "setupRestore", "setDoc")]
  /\ UNCHANGED <<idp, users, settings, lastWrite, ui>>

\* getDoc rejects: the inner catch
AdminBanCheckFail(s) ==
  /\ sess[s].pc = "banCheck"
  /\ sess' = [sess EXCEPT ![s] = Finish([@ EXCEPT !.fault = "getDoc"], ErrIncorrect)]
  /\ UNCHANGED <<idp, users, settings, clock, lastWrite, ui>>

\* setupAdminProfile(user, true) resolves
AdminSetupRestoreOk(s) ==
  /\ WritePending(s, "setupRestore")
  /\ ApplyProfileWrite(s, "admin-restore")
  /\ sess' = [sess EXCEPT ![s] =
       Succeed([@ EXCEPT !.writeResult = "ok"], AlertRestored)]
  /\ UNCHANGED <<idp, settings, clock, ui>>

\* it rejects: the inner catch
AdminSetupRestoreFail(s) ==
  /\ WritePending(s, "setupRestore")
  /\ sess' = [sess EXCEPT ![s] =
       Finish([@ EXCEPT !.writeResult = "rejected", !.fault = "setDoc"], ErrIncorrect)]
  /\ UNCHANGED <<idp, users, settings, clock, lastWrite, ui>>


\* --------------------------- AdminRegistration.handleGoogleRegister
GoogleEmails == {"b@x.io"}
GoogleName == "Bee"

\* signInWithPopup: the account's identity, created at its first sign-in
PopupIdentity(ids, email) ==
  IF email \in DOMAIN ids THEN ids ELSE NewIdentity(ids, email, Undefined, GoogleName)

\* handleGoogleRegister without the return while the code is loading
AdminGoogleNoLoadingGuard(s, code) ==
  /\ CanStart(s)
  /\ sess' = [sess EXCEPT ![s] =
       IF code # sess[s].systemAdminCode
         THEN [Begin(@, [BlankForm EXCEPT !.adminCode = code],
                          "handleGoogleRegister") EXCEPT
                 !.error = ErrGoogleCode]
         ELSE Await([Begin(@, [BlankForm EXCEPT !.adminCode = code],
                          "handleGoogleRegister") EXCEPT
                       !.loading = TRUE],
                    "popup", "signInFederated")]
  /\ UNCHANGED <<idp, users, settings, clock, lastWrite, ui>>

\* handleGoogleRegister up to signInWithPopup
AdminGoogle(s, code) ==
  /\ CanStart(s)
  /\ sess' = [sess EXCEPT ![s] =
       IF sess[s].loadingCode THEN Begin(@, [BlankForm EXCEPT !.adminCode = code],
                          "handleGoogleRegister")
       ELSE IF code # sess[s].systemAdminCode
         THEN [Begin(@, [BlankForm EXCEPT !.adminCode = code],
                          "handleGoogleRegister") EXCEPT
                 !.error = ErrGoogleCode]
         ELSE Await([Begin(@, [BlankForm EXCEPT !.adminCode = code],
                          "handleGoogleRegister") EXCEPT
                       !.loading = TRUE],
                    "popup", "signInFederated")]
  /\ UNCHANGED <<idp, users, settings, clock, lastWrite, ui>>

\* signInWithPopup resolves; getDoc of the profile is called
AdminPopupOk(s, email) ==
  /\ sess[s].pc = "popup"
  /\ idp' = PopupIdentity(idp, email)
  /\ sess' = [sess EXCEPT ![s] =
       Await([@ EXCEPT !.currentUser = UidOf(email), !.cred = UserOf(idp', email)],
             "gBanCheck", "getDoc")]
  /\ UNCHANGED <<users, settings, clock, lastWrite, ui>>

\* signInWithPopup rejects (popup closed, provider unreachable)
AdminPopupFail(s) ==
  /\ sess[s].pc = "popup"
  /\ \E message \in ErrorMessages :
       sess' = [sess EXCEPT ![s] = Finish(@, GoogleFailedMessage(message))]
  /\ UNCHANGED <<idp, users, settings, clock, lastWrite, ui>>

\* getDoc resolves with a banned profile: signOut(auth) is called and awaited
AdminGoogleBanCheckDenied(s) ==
  /\ sess[s].pc = "gBanCheck"
  /\ IsBanned(users, sess[s].cred.uid)
  /\ sess' = [sess EXCEPT ![s] =
       Await(BanChecked(@, sess[s].cred.uid), "gSignOut", "signOut")]
  /\ UNCHANGED <<idp, users, settings, clock, lastWrite, ui>>

\* signOut resolves: the banned message, and the handler returns
AdminGoogleSignOutOk(s) ==
  /\ sess[s].pc = "gSignOut"
  /\ sess' = [sess EXCEPT ![s] = Deny(@, ErrGoogleBanned)]
  /\ UNCHANGED <<idp, users, settings, clock, lastWrite, ui>>

\* signOut rejects: the catch of handleGoogleRegister; the user stays signed in
AdminGoogleSignOutFail(s) ==
  /\ sess[s].pc = "gSignOut"
  /\ \E message \in ErrorMessages :
       sess' = [sess EXCEPT ![s] =
         Finish([@ EXCEPT !.fault = "signOut"], GoogleFailedMessage(message))]
  /\ UNCHANGED <<idp, users, settings, clock, lastWrite, ui>>

\* getDoc resolves with no profile or one not banned: setupAdminProfile(user, true)
AdminGoogleBanCheckPass(s) ==
  /\ sess[s].pc = "gBanCheck"
  /\ ~IsBanned(users, sess[s].cred.uid)
  /\ clock < MaxClock
  /\ clock' = clock + 1
  /\ sess' = [sess EXCEPT ![s] =
       Await([BanChecked(@, sess[s].cred.uid) EXCEPT
                !.payload = AdminProfileData(sess[s].cred, TRUE, clock + 1)],
             "gSetup", "setDoc")]
  /\ UNCHANGED <<idp, users, settings, lastWrite, ui>>

\* getDoc rejects: the catch of handleGoogleRegister
AdminGoogleBanCheckFail(s) ==
  /\ sess[s].pc = "gBanCheck"
  /\ \E message \in ErrorMessages :
       sess' = [sess EXCEPT ![s] = Finish(@, GoogleFailedMessage(message))]
  /\ UNCHANGED <<idp, users, settings, clock, lastWrite, ui>>

\* setupAdminProfile(user, true) resolves; onRegister() with no alert
AdminGoogleSetupOk(s) ==
  /\ WritePending(s, "gSetup")
  /\ ApplyProfileWrite(s, "admin-restore")
  /\ sess' = [sess EXCEPT ![s] = Succeed([@ EXCEPT !.writeResult = "ok"], "")]
  /\ UNCHANGED <<idp, settings, clock, ui>>

\* it rejects: the catch of handleGoogleRegister
AdminGoogleSetupFail(s) ==
  /\ WritePending(s, "gSetup")
  /\ \E message \in ErrorMessages :
       sess' = [sess EXCEPT ![s] =
         Finish([@ EXCEPT !.writeResult = "rejected"], GoogleFailedMessage(message))]
  /\ UNCHANGED <<idp, users, settings, clock, lastWrite, ui>>

\* ---------------------------------------------------- UserRegistration
ValidateUser(form) ==
  IF form.password # form.confirmPassword THEN ErrUPwMismatch
  ELSE IF Len(form.password) < 6 THEN ErrUWeakPw
  ELSE ""

\* the userData with the status of a fresh account added to it
UserProfileDataWithStatus(user, form, isGoogle, now) ==
  [EmptyDoc EXCEPT
     !.uid = user.uid,
     !.email = user.email,
     !.name = IF form.fullName # "" THEN form.fullName
              ELSE IF user.displayName \notin {Null, ""} THEN user.displayName
              ELSE "User",
     !.phone = form.phone,
     !.role = "user",
     !.status = "active",
     !.authProvider = IF isGoogle THEN "google" ELSE "email",
     !.createdAt = toISOString(now)]

\* the userData of saveUserProfile(user, isGoogle)
UserProfileData(user, form, isGoogle, now) ==
  [EmptyDoc EXCEPT
     !.uid = user.uid,
     !.email = user.email,
     !.name = IF form.fullName # "" THEN form.fullName
              ELSE IF user.displayName \notin {Null, ""} THEN user.displayName
              ELSE "User",
     !.phone = form.phone,
     !.role = "user",
     !.authProvider = IF isGoogle THEN "google" ELSE "email",
     !.createdAt = toISOString(now)]

UserSavePcs == {"uSave", "uSaveG"}
UserAlert(label) == IF label = "uSaveG" THEN AlertUserGoogle ELSE AlertUserCreated

\* handleSubmit up to createUserWithEmailAndPassword
UserSubmit(s, form) ==
  /\ CanStart(s)
  /\ sess' = [sess EXCEPT ![s] =
       IF ValidateUser(form) # ""
         THEN [Begin(@, form, "user.handleSubmit") EXCEPT !.error = ValidateUser(form)]
         ELSE Await([Begin(@, form, "user.handleSubmit") EXCEPT !.loading = TRUE],
                    "uCreating", "createIdentity")]
  /\ UNCHANGED <<idp, users, settings, clock, lastWrite, ui>>

\* createUserWithEmailAndPassword resolves; saveUserProfile(user, false) is called
UserCreateOk(s) ==
  /\ sess[s].pc = "uCreating"
  /\ sess[s].formData.email \notin DOMAIN idp
  /\ clock < MaxClock
  /\ idp' = NewIdentity(idp, sess[s].formData.email, sess[s].formData.password, Null)
  /\ clock' = clock + 1
  /\ sess' = [sess EXCEPT ![s] =
       Await([@ EXCEPT !.currentUser = UidOf(sess[s].formData.email),
                       !.cred = UserOf(idp', sess[s].formData.email),
                       !.payload = UserProfileData(
                          UserOf(idp', sess[s].formData.email), sess[s].formData,
                          FALSE, clock + 1)],
             "uSave", "setDoc")]
  /\ UNCHANGED <<users, settings, lastWrite, ui>>

\* it rejects with auth/email-already-in-use
UserCreateExists(s) ==
  /\ sess[s].pc = "uCreating"
  /\ sess[s].formData.email \in DOMAIN idp
  /\ sess' = [sess EXCEPT ![s] = Finish(@, ErrUExists)]
  /\ UNCHANGED <<idp, users, settings, clock, lastWrite, ui>>

\* it rejects with any other code
UserCreateFail(s) ==
  /\ sess[s].pc = "uCreating"
  /\ \E message \in ErrorMessages :
       sess' = [sess EXCEPT ![s] = Finish(@, UserOtherMessage(message))]
  /\ UNCHANGED <<idp, users, settings, clock, lastWrite, ui>>

\* handleGoogleSignup up to signInWithPopup
UserGoogle(s, form) ==
  /\ CanStart(s)
  /\ sess' = [sess EXCEPT ![s] =
       Await([Begin(@, form, "user.handleGoogleSignup") EXCEPT !.loading = TRUE], "uPopup", "signInFederated")]
  /\ UNCHANGED <<idp, users, settings, clock, lastWrite, ui>>

\* signInWithPopup resolves; saveUserProfile(user, true) is called
UserPopupOk(s, email) ==
  /\ sess[s].pc = "uPopup"
  /\ clock < MaxClock
  /\ idp' = PopupIdentity(idp, email)
  /\ clock' = clock + 1
  /\ sess' = [sess EXCEPT ![s] =
       Await([@ EXCEPT !.currentUser = UidOf(email),
                       !.cred = UserOf(idp', email),
                       !.payload = UserProfileData(UserOf(idp', email),
                                                   sess[s].formData, TRUE, clock + 1)],
             "uSaveG", "setDoc")]
  /\ UNCHANGED <<users, settings, lastWrite, ui>>

\* signInWithPopup rejects
UserPopupFail(s) ==
  /\ sess[s].pc = "uPopup"
  /\ \E message \in ErrorMessages :
       sess' = [sess EXCEPT ![s] = Finish(@, UserGoogleMessage(message))]
  /\ UNCHANGED <<idp, users, settings, clock, lastWrite, ui>>

\* saveUserProfile: setDoc resolves before the timer
UserSaveOk(s) ==
  /\ sess[s].pc \in UserSavePcs /\ sess[s].writeResult = "none"
  /\ ApplyProfileWrite(s, "user")
  /\ sess' = [sess EXCEPT ![s] =
       Succeed([@ EXCEPT !.writeResult = "ok"], UserAlert(sess[s].pc))]
  /\ UNCHANGED <<idp, settings, clock, ui>>

\* saveUserProfile: setDoc rejects; the catch only warns
UserSaveRejected(s) ==
  /\ sess[s].pc \in UserSavePcs /\ sess[s].writeResult = "none"
  /\ sess' = [sess EXCEPT ![s] =
       Succeed([@ EXCEPT !.writeResult = "rejected"], UserAlert(sess[s].pc))]
  /\ UNCHANGED <<idp, users, settings, clock, lastWrite, ui>>

\* saveUserProfile: the 5 s timer of withTimeout fires first; the catch only
\* warns.  Promise.race does not cancel the write: unless the store lost it,
\* it stays in flight after the handler has gone on
UserSaveTimeout(s) ==
  /\ sess[s].pc \in UserSavePcs
  /\ sess' = [sess EXCEPT ![s] =
       Succeed([@ EXCEPT !.writeResult = "timeout",
                         !.late = IF sess[s].writeResult = "none"
                                    THEN @ \cup {[key |-> ProfileKey(sess[s].cred),
                                                  data |-> sess[s].payload]}
                                    ELSE @],
               UserAlert(sess[s].pc))]
  /\ UNCHANGED <<idp, users, settings, clock, lastWrite, ui>>

\* the store applies a write that had timed out; no handler waits for it
UserLateLanding(s) ==
  \E w \in sess[s].late :
    /\ users' = SetDocMerge(users, w.key, w.data, EmptyDoc)
    /\ lastWrite' = [lastWrite EXCEPT ![w.key] = "user"]
    /\ sess' = [sess EXCEPT ![s] = [@ EXCEPT !.late = @ \ {w}]]
    /\ UNCHANGED <<idp, settings, clock, ui>>

\* the store rejects a write that had timed out: the race is over, nothing reads it
UserLateRejected(s) ==
  \E w \in sess[s].late :
    /\ sess' = [sess EXCEPT ![s] = [@ EXCEPT !.late = @ \ {w}]]
    /\ UNCHANGED <<idp, users, settings, clock, lastWrite, ui>>


\* ------------------------------------------------------ AdminManagement
ErrShortCode == "Code is too short (min 5 chars)."
ErrKeyDb == "Database Error: Could not update key."
ErrBanDb == "Database Error: Could not ban user."
ErrUnbanDb == "Database Error: Could not unban user."
MIN_CODE_LEN == 5

EmptyConfig == [registrationKey |-> Undefined]

\* the roster query: where("role", "==", "admin"), each doc as { id, ...data }
AdminRoster(coll) ==
  [d \in {x \in DOMAIN coll : coll[x].role = "admin"} |->
     [email |-> coll[d].email, status |-> coll[d].status]]

\* the key fetchData shows
ShownCode(coll) ==
  IF DocExists(coll, "admin_config")
    THEN IF coll["admin_config"].registrationKey \notin {Undefined, ""}
           THEN coll["admin_config"].registrationKey
           ELSE "Not Set"
    ELSE FALLBACK_CODE

\* the unban case copied from the ban case with its status left as it was
StatusForCopied(action) == "banned"

\* the status handleExecute writes for an action
StatusFor(action) == IF action = "ban" THEN "banned" ELSE "active"

\* the write as a setDoc without merge: the document is replaced
UpdateStatusReplacing(coll, id, status) ==
  [coll EXCEPT ![id] = [EmptyDoc EXCEPT !.status = status]]

\* updateDoc(ref, { status }): only of a document that exists
UpdateStatus(coll, id, status) == [coll EXCEPT ![id].status = status]

\* setAdmins(prev => prev.map(a => a.id === id ? { ...a, status } : a))
MapStatus(list, id, status) ==
  [d \in DOMAIN list |-> IF d = id THEN [list[d] EXCEPT !.status = status] ELSE list[d]]

\* every row shows the button, the caller's own too
CanOpenAnyRow(type, id) ==
  /\ ~ui.loading
  /\ id \in DOMAIN ui.admins
  /\ (type = "ban") = (ui.admins[id].status # "banned")

\* the row of the roster shows a Ban (or Unban) button
CanOpen(type, id) ==
  /\ ~ui.loading
  /\ id \in DOMAIN ui.admins
  /\ ui.admins[id].email # CallerEmail
  /\ (type = "ban") = (ui.admins[id].status # "banned")

\* closeModal()
Closed(u) == [u EXCEPT !.actionType = Null, !.selectedAdmin = Null]

\* the writes in flight when the component is unmounted: their continuations
\* set the state of a component that is gone
Orphaned(b) ==
  LET dead(op) == [op EXCEPT !.live = FALSE]
      count(op) == IF op \in DOMAIN b THEN b[op] ELSE 0
  IN [d \in {dead(op) : op \in DOMAIN b} |-> count(d) + count([d EXCEPT !.live = TRUE])]

\* the component is mounted again: fetchData() starts over
MgmtMount ==
  /\ ui.mpc = "idle" /\ ui.actionType = Null
  /\ ui.ops < MaxRosterOps
  /\ ui' = [InitUi EXCEPT !.ops = ui.ops + 1, !.sets = ui.sets,
                          !.flight = Orphaned(ui.flight)]
  /\ UNCHANGED <<idp, users, settings, clock, lastWrite, sess>>

\* fetchData: getDocs(q) resolves
MgmtQueryOk ==
  /\ ui.mpc = "getDocs"
  /\ ui' = [ui EXCEPT !.admins = AdminRoster(users), !.mpc = "getDoc"]
  /\ UNCHANGED <<idp, users, settings, clock, lastWrite, sess>>

\* fetchData: getDoc(configRef) resolves
MgmtConfigOk ==
  /\ ui.mpc = "getDoc"
  /\ ui' = [ui EXCEPT !.globalRegKey = ShownCode(settings), !.loading = FALSE,
                      !.mpc = "idle"]
  /\ UNCHANGED <<idp, users, settings, clock, lastWrite, sess>>

\* fetchData: either read rejects
MgmtFetchFail ==
  /\ ui.mpc \in {"getDocs", "getDoc"}
  /\ ui' = [ui EXCEPT !.loading = FALSE, !.mpc = "idle"]
  /\ UNCHANGED <<idp, users, settings, clock, lastWrite, sess>>

\* openModal('ban' | 'unban', admin)
OpenModal(type, id) ==
  /\ ui.actionType = Null
  /\ ui.ops < MaxRosterOps
  /\ CanOpen(type, id)
  /\ ui' = [ui EXCEPT !.actionType = type, !.selectedAdmin = id, !.errorMsg = "",
                      !.newValueInput = "", !.ops = @ + 1]
  /\ UNCHANGED <<idp, users, settings, clock, lastWrite, sess>>

\* openModal('update-reg-key')
OpenKeyModal ==
  /\ ui.actionType = Null
  /\ ui.ops < MaxRosterOps
  /\ ui' = [ui EXCEPT !.actionType = "update-reg-key", !.selectedAdmin = Null,
                      !.errorMsg = "", !.newValueInput = "", !.ops = @ + 1]
  /\ UNCHANGED <<idp, users, settings, clock, lastWrite, sess>>

\* closeModal() from the Cancel button or the X
CloseModal ==
  /\ ui.actionType # Null
  /\ ui' = Closed(ui)
  /\ UNCHANGED <<idp, users, settings, clock, lastWrite, sess>>

\* onChange of the input of the Change Code modal: setNewValueInput(e.target.value)
TypeNewValue(newCode) ==
  /\ ui.actionType = "update-reg-key"
  /\ ui.newValueInput # newCode
  /\ ui' = [ui EXCEPT !.newValueInput = newCode]
  /\ UNCHANGED <<idp, users, settings, clock, lastWrite, sess>>

\* what the closure of a handleExecute call holds while its write is awaited
FlightOp(u) ==
  [type |-> u.actionType, id |-> u.selectedAdmin, code |-> u.newValueInput,
   live |-> TRUE]

\* the write is issued and handleExecute is suspended at its await
Issue(u) == [u EXCEPT !.errorMsg = "", !.flight = @ (+) SetToBag({FlightOp(u)})]

\* the answer of the write op has arrived
Answered(u, op) == [u EXCEPT !.flight = @ (-) SetToBag({op})]

\* handleExecute without the check of the length
handleExecuteUnchecked ==
  /\ ui.actionType # Null
  /\ BagCardinality(ui.flight) < MaxFlight
  /\ ui' = Issue(ui)
  /\ UNCHANGED <<idp, users, settings, clock, lastWrite, sess>>

\* handleExecute, from the Confirm button, up to its await: setErrorMsg(''),
\* the check of the length in the case update-reg-key, the write issued
handleExecute ==
  /\ ui.actionType # Null
  /\ IF ui.actionType = "update-reg-key" /\ Len(ui.newValueInput) < MIN_CODE_LEN
       THEN ui' = [ui EXCEPT !.errorMsg = ErrShortCode]
       ELSE /\ BagCardinality(ui.flight) < MaxFlight
            /\ ui' = Issue(ui)
  /\ UNCHANGED <<idp, users, settings, clock, lastWrite, sess>>

\* case update-reg-key: setDoc resolves; setGlobalRegKey, closeModal, alert
ExecuteRegKeyOk(op) ==
  /\ BagIn(op, ui.flight) /\ op.type = "update-reg-key"
  /\ settings' = SetDocMerge(settings, "admin_config",
                             [registrationKey |-> op.code], EmptyConfig)
  /\ ui' = IF op.live
             THEN Closed([Answered(ui, op) EXCEPT !.globalRegKey = op.code,
                                                  !.sets = Append(@, op.code)])
             ELSE [Answered(ui, op) EXCEPT !.sets = Append(@, op.code)]
  /\ UNCHANGED <<idp, users, clock, lastWrite, sess>>

\* case update-reg-key: setDoc rejects; the catch sets the message
ExecuteRegKeyFail(op) ==
  /\ BagIn(op, ui.flight) /\ op.type = "update-reg-key"
  /\ ui' = IF op.live THEN [Answered(ui, op) EXCEPT !.errorMsg = ErrKeyDb]
             ELSE Answered(ui, op)
  /\ UNCHANGED <<idp, users, settings, clock, lastWrite, sess>>

\* cases ban and unban: updateDoc resolves; setAdmins, closeModal
ExecuteStatusOk(op) ==
  /\ BagIn(op, ui.flight) /\ op.type \in {"ban", "unban"}
  /\ DocExists(users, op.id)
  /\ users' = UpdateStatus(users, op.id, StatusFor(op.type))
  /\ lastWrite' = [lastWrite EXCEPT ![op.id] = op.type]
  /\ ui' = IF op.live
             THEN Closed([Answered(ui, op) EXCEPT
                    !.admins = MapStatus(ui.admins, op.id, StatusFor(op.type)),
                    !.lastExec = <<op.id, users[op.id].status, StatusFor(op.type)>>])
             ELSE [Answered(ui, op) EXCEPT
                    !.lastExec = <<op.id, users[op.id].status, StatusFor(op.type)>>]
  /\ UNCHANGED <<idp, settings, clock, sess>>

\* cases ban and unban: updateDoc rejects; the catch sets the message
ExecuteStatusFail(op) ==
  /\ BagIn(op, ui.flight) /\ op.type \in {"ban", "unban"}
  /\ ui' = IF op.live
             THEN [Answered(ui, op) EXCEPT
                     !.errorMsg = IF op.type = "ban" THEN ErrBanDb ELSE ErrUnbanDb]
             ELSE Answered(ui, op)
  /\ UNCHANGED <<idp, users, settings, clock, lastWrite, sess>>

\* ------------------------------------------------------- AdminDashboard
PANEL_ACCESS_CODE == "OPEN_2025"
\* the message of the else branch; its first character, the cross mark
\* U+274C, is written as its escape, the module being ASCII
ErrAccessDenied == "\\u274c Access Denied: Invalid Code"
\* what is typed into the input of the security modal
GateCodes == {"OPEN_2025", "ADMIN2025"}
\* how many trip requests the dashboard finds pending
PendingCounts == {0, 1}
\* the screens of the cards under Quick Actions
CardScreens == {"trip-approval", "vehicle-management", "driver-management",
                "user-management", "reports"}
\* the screens TopNav leads to from the dashboard: not the management surface,
\* which the panel code gates
TopNavScreens == {"admin-dashboard"}

\* the dashboard is mounted: its state starts over and fetchData() runs
DashMount(s) ==
  /\ sess' = [sess EXCEPT ![s] =
       [@ EXCEPT !.dashLoading = TRUE, !.dpc = "vehicles", !.pendingRequests = 0,
                 !.showSecurityModal = FALSE, !.securityCode = "",
                 !.securityError = ""]]
  /\ UNCHANGED <<idp, users, settings, clock, lastWrite, ui>>

\* fetchData: getDocs(vehicles) resolves
DashVehiclesOk(s) ==
  /\ sess[s].dpc = "vehicles"
  /\ sess' = [sess EXCEPT ![s] = [@ EXCEPT !.dpc = "requests"]]
  /\ UNCHANGED <<idp, users, settings, clock, lastWrite, ui>>

\* fetchData: getDocs(trip_requests) resolves with n pending; setLoading(false)
DashRequestsOk(s, n) ==
  /\ sess[s].dpc = "requests"
  /\ sess' = [sess EXCEPT ![s] =
       [@ EXCEPT !.pendingRequests = n, !.dashLoading = FALSE, !.dpc = "idle"]]
  /\ UNCHANGED <<idp, users, settings, clock, lastWrite, ui>>

\* fetchData: either read rejects; the catch does setLoading(false)
DashFetchFail(s) ==
  /\ sess[s].dpc \in {"vehicles", "requests"}
  /\ sess' = [sess EXCEPT ![s] = [@ EXCEPT !.dashLoading = FALSE, !.dpc = "idle"]]
  /\ UNCHANGED <<idp, users, settings, clock, lastWrite, ui>>

\* onNavigate(screen), while fewer than MaxNavigations calls were made
Navigate(s, screen) ==
  /\ Len(sess[s].onNavigateCalls) < MaxNavigations
  /\ sess' = [sess EXCEPT ![s] = [@ EXCEPT !.onNavigateCalls = Append(@, screen)]]
  /\ UNCHANGED <<idp, users, settings, clock, lastWrite, ui>>

\* the Review Requests button, shown when requests are pending
ReviewRequests(s) ==
  /\ ~sess[s].dashLoading
  /\ sess[s].pendingRequests > 0
  /\ Navigate(s, "trip-approval")

\* a card under Quick Actions other than Admin Management
CardNavigate(s, screen) ==
  /\ ~sess[s].dashLoading
  /\ Navigate(s, screen)

\* a link of TopNav
TopNavNavigate(s, screen) ==
  /\ ~sess[s].dashLoading
  /\ Navigate(s, screen)

\* the Admin Management card: setShowSecurityModal(true)
OpenSecurityModal(s) ==
  /\ ~sess[s].dashLoading
  /\ ~sess[s].showSecurityModal
  /\ sess' = [sess EXCEPT ![s] = [@ EXCEPT !.showSecurityModal = TRUE]]
  /\ UNCHANGED <<idp, users, settings, clock, lastWrite, ui>>

\* the X of the modal: setShowSecurityModal(false)
CloseSecurityModal(s) ==
  /\ ~sess[s].dashLoading
  /\ sess[s].showSecurityModal
  /\ sess' = [sess EXCEPT ![s] = [@ EXCEPT !.showSecurityModal = FALSE]]
  /\ UNCHANGED <<idp, users, settings, clock, lastWrite, ui>>

\* onChange of the input: setSecurityCode(e.target.value)
TypeSecurityCode(s, code) ==
  /\ ~sess[s].dashLoading
  /\ sess[s].showSecurityModal
  /\ sess[s].securityCode # code
  /\ sess' = [sess EXCEPT ![s] = [@ EXCEPT !.securityCode = code]]
  /\ UNCHANGED <<idp, users, settings, clock, lastWrite, ui>>

\* the verification that lets every code but the empty one through
VerifyNonEmpty(code) == code # ""

\* securityCode === PANEL_ACCESS_CODE
Verify(code) == code = PANEL_ACCESS_CODE

\* handleAdminPanelAccess, from the button or the Enter key of the modal
handleAdminPanelAccess(s) ==
  /\ ~sess[s].dashLoading
  /\ sess[s].showSecurityModal
  /\ IF Verify(sess[s].securityCode)
       THEN /\ Len(sess[s].onNavigateCalls) < MaxNavigations
            /\ sess' = [sess EXCEPT ![s] =
                 [@ EXCEPT !.showSecurityModal = FALSE, !.securityCode = "",
                           !.securityError = "",
                           !.onNavigateCalls = Append(@, "admin-management")]]
       ELSE sess' = [sess EXCEPT ![s] = [@ EXCEPT !.securityError = ErrAccessDenied]]
  /\ UNCHANGED <<idp, users, settings, clock, lastWrite, ui>>

\* ------------------------------------------------------- specification
\* a step of the handler in flight in session s
SessionStep(s) ==
  \/ AdminCreateOk(s) \/ AdminCreateConflict(s) \/ AdminCreateFail(s)
  \/ AdminSetupNewOk(s) \/ AdminSetupNewFail(s)
  \/ AdminLoginOk(s) \/ AdminLoginWrongPassword(s) \/ AdminLoginUnavailable(s)
  \/ AdminBanCheckDenied(s) \/ AdminBanCheckPass(s) \/ AdminBanCheckFail(s)
  \/ AdminSignOutOk(s) \/ AdminSignOutFail(s)
  \/ AdminSetupRestoreOk(s) \/ AdminSetupRestoreFail(s)
  \/ \E e \in GoogleEmails : AdminPopupOk(s, e)
  \/ AdminPopupFail(s)
  \/ AdminGoogleBanCheckDenied(s) \/ AdminGoogleBanCheckPass(s)
  \/ AdminGoogleBanCheckFail(s)
  \/ AdminGoogleSignOutOk(s) \/ AdminGoogleSignOutFail(s)
  \/ AdminGoogleSetupOk(s) \/ AdminGoogleSetupFail(s)
  \/ UserCreateOk(s) \/ UserCreateExists(s) \/ UserCreateFail(s)
  \/ \E e \in GoogleEmails : UserPopupOk(s, e)
  \/ UserPopupFail(s)
  \/ UserSaveOk(s) \/ UserSaveRejected(s)
  \/ UserSaveTimeout(s)

\* the answer of a write that outlived its timer
LateWriteStep(s) == UserLateLanding(s) \/ UserLateRejected(s)

\* a handler is started in session s
SessionStart(s) ==
  \/ \E f \in AdminForms : AdminSubmit(s, f)
  \/ \E c \in FormCodes : AdminGoogle(s, c)
  \/ \E f \in UserForms : UserSubmit(s, f)
  \/ \E f \in UserGoogleForms : UserGoogle(s, f)

\* the roster: fetchData and the ban and unban of BanLifecycle
Roster ==
  \/ MgmtMount \/ MgmtQueryOk \/ MgmtConfigOk \/ MgmtFetchFail
  \/ \E type \in {"ban", "unban"}, id \in DocIds : OpenModal(type, id)
  \/ CloseModal
  \/ handleExecute
  \/ \E op \in DOMAIN ui.flight : ExecuteStatusOk(op) \/ ExecuteStatusFail(op)

\* the rotation of the access code, the input typed drawn from codes
RotationOf(codes) ==
  \/ OpenKeyModal
  \/ \E c \in codes : TypeNewValue(c)
  \/ handleExecute
  \/ \E op \in DOMAIN ui.flight : ExecuteRegKeyOk(op) \/ ExecuteRegKeyFail(op)

Rotation == RotationOf(NewCodes)

MainSessions == {"S1"}

Next ==
  \/ \E s \in MainSessions :
       \/ FetchAdminCodeOk(s) \/ FetchAdminCodeFail(s)
       \/ SessionStart(s)
       \/ SessionStep(s)
       \/ LateWriteStep(s)
       \/ StoreNeverResolves(s)
  \/ Roster

Spec == Init /\ [][Next]_vars

\* the forms for one email that pass the validation against the fallback code
ValidForms ==
  { f \in AdminForms : /\ f.email = "b@x.io" /\ f.adminCode = FALLBACK_CODE
                       /\ f.password = f.confirmPassword /\ f.password # "abc" }

\* a step of handleSubmit in flight in session s
EmailStep(s) ==
  \/ AdminCreateOk(s) \/ AdminCreateConflict(s) \/ AdminCreateFail(s)
  \/ AdminSetupNewOk(s) \/ AdminSetupNewFail(s)
  \/ AdminLoginOk(s) \/ AdminLoginWrongPassword(s) \/ AdminLoginUnavailable(s)
  \/ AdminBanCheckDenied(s) \/ AdminBanCheckPass(s) \/ AdminBanCheckFail(s)
  \/ AdminSignOutOk(s) \/ AdminSignOutFail(s)
  \/ AdminSetupRestoreOk(s) \/ AdminSetupRestoreFail(s)

\* the access code: AdminManagement with the rotation of the code, and the
\* AdminRegistration form that loads the code and validates against it
\* one code too short and one long enough
RotationCodes == {"abcd", "abcde"}

NextRotation ==
  \/ \E s \in MainSessions :
       \/ FetchAdminCodeOk(s) \/ FetchAdminCodeFail(s)
       \/ \E f \in ValidForms : AdminSubmit(s, f)
       \/ EmailStep(s)
  \/ Roster
  \/ RotationOf(RotationCodes)

SpecRotation == Init /\ [][NextRotation]_vars

\* two browsers on the AdminRegistration form at once, both registering the
\* same email; no roster is mounted, so no profile is ever banned
EmailStepNoBan(s) ==
  \/ AdminCreateOk(s) \/ AdminCreateConflict(s) \/ AdminCreateFail(s)
  \/ AdminSetupNewOk(s) \/ AdminSetupNewFail(s)
  \/ AdminLoginOk(s) \/ AdminLoginWrongPassword(s) \/ AdminLoginUnavailable(s)
  \/ AdminBanCheckPass(s) \/ AdminBanCheckFail(s)
  \/ AdminSetupRestoreOk(s) \/ AdminSetupRestoreFail(s)

\* the admin registration by email with the dashboard of the same browser
NextGate ==
  \/ \E s \in MainSessions :
       \/ FetchAdminCodeOk(s) \/ FetchAdminCodeFail(s)
       \/ \E f \in ValidForms : AdminSubmit(s, f)
       \/ EmailStepNoBan(s)
  \/ \E s \in MainSessions :
       \/ DashMount(s)
       \/ DashVehiclesOk(s)
       \/ \E n \in PendingCounts : DashRequestsOk(s, n)
       \/ DashFetchFail(s)
       \/ ReviewRequests(s)
       \/ \E screen \in CardScreens : CardNavigate(s, screen)
       \/ \E screen \in TopNavScreens : TopNavNavigate(s, screen)
       \/ OpenSecurityModal(s)
       \/ CloseSecurityModal(s)
       \/ \E code \in GateCodes : TypeSecurityCode(s, code)
       \/ handleAdminPanelAccess(s)

SpecGate == Init /\ [][NextGate]_vars

NextConcurrent ==
  \E s \in Sessions :
    \/ FetchAdminCodeOk(s)
    \/ \E f \in ValidForms : AdminSubmit(s, f)
    \/ EmailStepNoBan(s)

SpecConcurrent == Init /\ [][NextConcurrent]_vars

\* a step of handleGoogleRegister in flight in session s
GoogleStep(s) ==
  \/ \E e \in GoogleEmails : AdminPopupOk(s, e)
  \/ AdminPopupFail(s)
  \/ AdminGoogleBanCheckDenied(s) \/ AdminGoogleBanCheckPass(s)
  \/ AdminGoogleBanCheckFail(s)
  \/ AdminGoogleSignOutOk(s) \/ AdminGoogleSignOutFail(s)
  \/ AdminGoogleSetupOk(s) \/ AdminGoogleSetupFail(s)

\* the forms of one email and one password: valid, with another code, with
\* a confirmation that differs
LoadForms == { f \in AdminForms : f.email = "b@x.io" /\ f.password = "secret1" }

\* the AdminRegistration form from its load on, with both ways to submit it,
\* next to AdminManagement: its roster and the rotation of the access code
NextFormLoad ==
  \/ \E s \in MainSessions :
       \/ FetchAdminCodeOk(s) \/ FetchAdminCodeFail(s)
       \/ \E f \in LoadForms : AdminSubmit(s, f)
       \/ \E c \in FormCodes : AdminGoogle(s, c)
       \/ EmailStep(s)
       \/ GoogleStep(s)
  \/ Roster
  \/ RotationOf(RotationCodes)

SpecFormLoad == Init /\ [][NextFormLoad]_vars


\* ============================================================= claims
Denied(s) ==
  /\ sess[s].pc = "idle"
  /\ sess[s].error \in {ErrBanned, ErrGoogleBanned}
  /\ sess[s].onRegisterCalls = 0
  /\ sess[s].alertMsg = ""

Created(s) ==
  /\ sess[s].pc = "idle" /\ sess[s].error = ""
  /\ sess[s].alertMsg = AlertAdminCreated /\ sess[s].onRegisterCalls = 1

Restored(s) ==
  /\ sess[s].pc = "idle" /\ sess[s].error = ""
  /\ sess[s].alertMsg = AlertRestored /\ sess[s].onRegisterCalls = 1

\* C1: on both admin paths, an attempt whose ban check read status = banned
\* calls signOut, issues no profile write and does not signal success, and
\* once it has ended it is Denied with the session signed out.
C1_BannedIsDenied ==
  \A s \in Sessions :
    sess[s].banRead = "banned" =>
      /\ "signOut" \in sess[s].calls
      /\ "setDoc" \notin sess[s].calls
      /\ sess[s].writeResult = "none"
      /\ sess[s].onRegisterCalls = 0
      /\ sess[s].pc = "idle" =>
           /\ Denied(s)
           /\ sess[s].currentUser = Null

\* C2: once status = banned is stored, only an unban sets it back to active;
\* no write of a registration flow does.
C2_BannedStaysBanned ==
  [][\A d \in DOMAIN users :
       (users[d].status = "banned" /\ users'[d].status = "active")
         => lastWrite'[d] = "unban"]_vars

\* C3: the users collection holds at most one profile per identity, and it
\* is the document keyed by the identity's own uid.
C3_OneProfilePerIdentity ==
  /\ \A u \in Uids : Cardinality({d \in DOMAIN users : users[d].uid = u}) <= 1
  /\ \A d \in DOMAIN users : users[d].uid = d

C3_Witness ==
  \E s \in Sessions :
    /\ Restored(s)
    /\ DOMAIN users = {"uidB"}
    /\ users["uidB"].createdAt # Undefined
    /\ users["uidB"].restoredAt # Undefined


\* a field of a profile, Undefined when the profile does not exist
FieldOf(coll, id, f) == IF DocExists(coll, id) THEN coll[id][f] ELSE Undefined

ValidAdminForm(r) ==
  /\ r.formData.adminCode = r.systemAdminCode
  /\ r.formData.password = r.formData.confirmPassword
  /\ Len(r.formData.password) >= 6

\* the step in which the store applies the profile write of the handler at label
Written(s, label) ==
  /\ sess[s].pc = label
  /\ sess'[s].pc = "idle"
  /\ sess'[s].writeResult = "ok"

\* the profile after the registration of a new identity, with the fields being
\* those of the claim as stated (authProvider = email) or as amended
\* (authProvider not written)
NewProfileStep(s) ==
  LET uid == sess[s].cred.uid IN
  Written(s, "setupNew") =>
    /\ Created(s)'
    /\ ValidAdminForm(sess[s])
    /\ users'[uid].uid = uid
    /\ users'[uid].email = sess[s].formData.email
    /\ users'[uid].role = "admin"
    /\ users'[uid].status = "active"
    /\ users'[uid].createdAt = sess[s].payload.createdAt
    /\ users'[uid].createdAt # Undefined
    /\ users'[uid].restoredAt = FieldOf(users, uid, "restoredAt")
    /\ users'[uid].authProvider = "email"

\* a valid form for an email with no identity goes to identity creation, which
\* either fails or creates the identity and issues the profile write; it never
\* turns into a recovery
NewEmailStep(s) ==
  (/\ sess[s].pc = "creating"
   /\ sess'[s].pc # "creating"
   /\ sess[s].formData.email \notin DOMAIN idp) =>
     \/ /\ sess'[s].pc = "setupNew"
        /\ sess[s].formData.email \in DOMAIN idp'
        /\ sess'[s].currentUser = UidOf(sess[s].formData.email)
     \/ /\ sess'[s].pc = "idle" /\ sess'[s].error \in {FailedMessage(m) : m \in ErrorMessages}
        /\ idp' = idp /\ users' = users

\* C4: registration of a new email with a valid form returns Created and
\* leaves a profile with role = admin, status = active, authProvider =
\* email, createdAt set and restoredAt absent.
C4_NewProfileAsStated ==
  [][\A s \in Sessions : NewEmailStep(s) /\ NewProfileStep(s)]_vars

\* C5: a repeat of the registration with the same email and password for an
\* existing identity that is not banned passes the ban check, and once its
\* profile write is applied it returns Restored with role = admin, status =
\* active, restoredAt set and createdAt as it was before.
C5_RestoreKeepsCreatedAt ==
  [][\A s \in Sessions :
       LET uid == sess[s].cred.uid IN
       /\ (/\ sess[s].pc = "banCheck"
           /\ sess'[s].banRead \notin {Null, "banned"})
            => /\ sess'[s].pc = "setupRestore"
               /\ LoginAccepts(idp, sess[s].formData.email, sess[s].formData.password)
       /\ Written(s, "setupRestore") =>
            /\ Restored(s)'
            /\ users'[uid].role = "admin"
            /\ users'[uid].status = "active"
            /\ users'[uid].restoredAt = sess[s].payload.restoredAt
            /\ users'[uid].restoredAt # Undefined
            /\ users'[uid].createdAt = FieldOf(users, uid, "createdAt")]_vars

C5_Witness ==
  \E s \in Sessions :
    /\ Restored(s)
    /\ sess[s].banRead = "active"
    /\ lastWrite["uidB"] = "admin-restore"
    /\ users["uidB"].createdAt = toISOString(1)
    /\ users["uidB"].restoredAt = toISOString(2)


Backend == <<idp, users, settings, clock, lastWrite>>

\* C6: when identity creation conflicts and the login with the supplied
\* password fails, the attempt ends in IncorrectCredential and nothing is
\* mutated: no identity, profile or configuration record changes, the attempt
\* has issued no profile read or write, and it signs nobody in.
C6_WrongPasswordMutatesNothing ==
  [][\A s \in Sessions :
       (/\ sess[s].pc = "login"
        /\ sess'[s].pc # "login"
        /\ \/ ~LoginAccepts(idp, sess[s].formData.email, sess[s].formData.password)
           \/ sess'[s].pc # "banCheck") =>
         /\ sess'[s].pc = "idle"
         /\ sess'[s].error = ErrIncorrect
         /\ sess'[s].onRegisterCalls = 0 /\ sess'[s].alertMsg = ""
         /\ sess'[s].calls = {"createIdentity", "login"}
         /\ sess'[s].currentUser = sess[s].currentUser
         /\ ~sess'[s].loading
         /\ Backend' = Backend]_vars

C6_Witness ==
  \E s \in Sessions :
    /\ sess[s].pc = "idle" /\ sess[s].error = ErrIncorrect
    /\ sess[s].calls = {"createIdentity", "login"}
    /\ sess[s].formData.email \in DOMAIN idp
    /\ idp[sess[s].formData.email].password = "secret1"
    /\ sess[s].formData.password = "hunter22"
    /\ sess[s].currentUser = Null
    /\ DocExists(users, "uidB")

\* the ban check of the email path reads the profile
BanCheckReads(s) == sess[s].pc = "banCheck" /\ sess'[s].banRead # Null

\* C7: a recovery with correct credentials whose ban check comes right after
\* ban(id) goes to the sign-out without a write and, the sign-out resolved,
\* returns Denied; one whose ban check comes right after unban(id) goes on to
\* restore the profile, and returns Restored with status = active.
C7_BanThenUnban ==
  [][\A s \in Sessions :
       LET uid == sess[s].cred.uid IN
       /\ (BanCheckReads(s) /\ lastWrite[uid] = "ban") =>
            /\ sess'[s].pc = "signOut" /\ sess'[s].banRead = "banned"
            /\ "signOut" \in sess'[s].calls
            /\ Backend' = Backend
       /\ (sess[s].pc = "signOut" /\ sess'[s].pc = "idle" /\ sess'[s].fault = Null) =>
            /\ Denied(s)' /\ sess'[s].error = ErrBanned
            /\ sess'[s].currentUser = Null
            /\ "setDoc" \notin sess'[s].calls
            /\ Backend' = Backend
       /\ (BanCheckReads(s) /\ lastWrite[uid] = "unban") =>
            sess'[s].pc = "setupRestore"
       /\ (Written(s, "setupRestore") /\ sess[s].banReadAfter = "unban") =>
            /\ Restored(s)'
            /\ users'[uid].status = "active"]_vars

C7_Witness ==
  \E s \in Sessions :
    /\ Restored(s)
    /\ sess[s].prevDenied
    /\ sess[s].banReadAfter = "unban"
    /\ lastWrite["uidB"] = "admin-restore"
    /\ users["uidB"].status = "active"
    /\ "uidB" \in DOMAIN ui.admins /\ ui.admins["uidB"].status = "active"

\* a handler starts in session s
Starts(s, handler) ==
  /\ sess[s].pc = "idle"
  /\ sess'[s].attempts = sess[s].attempts + 1
  /\ sess'[s].handler = handler
  /\ ~sess[s].loadingCode

\* the attempt stops at validation: no remote call, nothing changed
StopsAtValidation(s) ==
  /\ sess'[s].pc = "idle"
  /\ sess'[s].calls = {}
  /\ sess'[s].error \in ValidationErrors
  /\ ~sess'[s].loading
  /\ sess'[s].onRegisterCalls = 0
  /\ sess'[s].currentUser = sess[s].currentUser
  /\ Backend' = Backend

\* C8: when the supplied code differs from the expected one, or the passwords
\* differ, or the password is shorter than 6, handleSubmit makes no remote
\* call and changes no identity or profile; handleGoogleRegister does not
\* start the federated sign-in when the supplied code differs.
C8_InvalidInputNoRemoteCall ==
  [][\A s \in Sessions :
       /\ (Starts(s, "handleSubmit") /\ ~ValidAdminForm(sess'[s])) =>
            StopsAtValidation(s)
       /\ (/\ Starts(s, "handleGoogleRegister")
           /\ sess'[s].formData.adminCode # sess[s].systemAdminCode) =>
            StopsAtValidation(s) /\ sess'[s].error = ErrGoogleCode
       /\ sess'[s].error \in ValidationErrors =>
            sess'[s].calls = {} /\ sess'[s].pc = "idle"]_vars

C8_Witness ==
  \E s \in Sessions :
    /\ sess[s].handler = "handleSubmit"
    /\ sess[s].error = ErrWeakPw
    /\ sess[s].formData.password = "abc"
    /\ sess[s].calls = {}
    /\ DocExists(users, "uidB")

\* C9: a flow whose profile write never resolves does not stay suspended: it
\* still has a step to take (the timer of the write fires).
C9_WriteNeverSuspends ==
  \A s \in Sessions : sess[s].writeResult = "hung" => ENABLED SessionStep(s)

\* C10: a profile write that was rejected or timed out is swallowed: the
\* attempt still ends with success signalled and no error shown.
C10_WriteFailureSwallowed ==
  \A s \in Sessions :
    (sess[s].pc = "idle" /\ sess[s].writeResult \in {"rejected", "timeout"}) =>
      /\ sess[s].onRegisterCalls = 1
      /\ sess[s].error = ""


\* ------------------------------------------------------------------ C11
DbErrorOf(action) ==
  CASE action = "update-reg-key" -> ErrKeyDb
    [] action = "ban" -> ErrBanDb
    [] action = "unban" -> ErrUnbanDb
    [] OTHER -> ""

\* the store rejects the write that the call op of handleExecute awaits
StoreFailureStep(op) == ExecuteRegKeyFail(op) \/ ExecuteStatusFail(op)

\* the roster is loaded before and after the step
RosterShown == ui.mpc = "idle" /\ ui'.mpc = "idle"

\* C11: a store failure of the rotation, of a ban or of an unban ends with
\* the error of that action set and the modal of that action open, and
\* changes neither the store nor the code and the roster shown; the code
\* shown and a roster entry's status change only with a store write of that
\* value.
C11_StoreFailureSurfaced ==
  [][/\ \A op \in DOMAIN ui.flight : StoreFailureStep(op) =>
          /\ ui'.errorMsg = DbErrorOf(op.type)
          /\ ui'.actionType = op.type
          /\ ui'.selectedAdmin = op.id
          /\ ui'.globalRegKey = ui.globalRegKey
          /\ ui'.admins = ui.admins
          /\ settings' = settings /\ users' = users
     /\ (RosterShown /\ ui'.globalRegKey # ui.globalRegKey) =>
          /\ DocExists(settings', "admin_config")
          /\ settings'["admin_config"].registrationKey = ui'.globalRegKey
          /\ ui'.sets = Append(ui.sets, ui'.globalRegKey)
     /\ (RosterShown /\ ui'.admins # ui.admins) =>
          /\ DOMAIN ui'.admins = DOMAIN ui.admins
          /\ \A id \in DOMAIN ui.admins :
               ui'.admins[id] # ui.admins[id] =>
                 /\ users'[id].status = ui'.admins[id].status
                 /\ lastWrite'[id] \in {"ban", "unban"}]_vars

\* ------------------------------------------------------------------ C12
\* Confirm is pressed in the Change Code modal
RotationTried == ui.actionType = "update-reg-key" /\ handleExecute

\* C12: a new code shorter than 5 is refused at the click with the validation
\* error and no store write is issued: the persisted code and the code shown
\* stay as they were, whatever the current code is; a code of 5 or more is
\* not refused and its write is issued; no code shorter than 5 is ever
\* written or persisted.
C12_ShortCodeRejected ==
  [][/\ (RotationTried /\ Len(ui.newValueInput) < 5) =>
          /\ ui'.errorMsg = ErrShortCode
          /\ ui'.actionType = "update-reg-key"
          /\ ui'.flight = ui.flight
          /\ settings' = settings
          /\ ui'.globalRegKey = ui.globalRegKey
          /\ ui'.sets = ui.sets
     /\ (RotationTried /\ Len(ui.newValueInput) >= 5) =>
          /\ ui'.errorMsg = ""
          /\ BagIn([type |-> "update-reg-key", id |-> Null,
                    code |-> ui.newValueInput, live |-> TRUE], ui'.flight)
     /\ \A op \in DOMAIN ui'.flight :
          op.type = "update-reg-key" => Len(op.code) >= 5
     /\ settings' # settings =>
          Len(settings'["admin_config"].registrationKey) >= 5]_vars

\* the short code is refused while another code than the fallback is stored
C12_Witness ==
  /\ ui.actionType = "update-reg-key"
  /\ ui.errorMsg = ErrShortCode
  /\ ui.newValueInput = "abcd"
  /\ ui.flight = EmptyBag
  /\ ui.sets = <<"abcde">>
  /\ ui.globalRegKey = "abcde"
  /\ settings["admin_config"].registrationKey = "abcde"

\* ------------------------------------------------------------------ C13
\* the code of the most recent rotation the store accepted, or the fallback
\* when there was none (no configuration record exists)
LatestCode == IF ui.sets = <<>> THEN "ADMIN2025" ELSE ui.sets[Len(ui.sets)]

C14_CreatedAtSetOnce ==
  [][\A id \in DocIds :
       (DocExists(users, id) /\ users[id].createdAt # Undefined) =>
         users'[id].createdAt = users[id].createdAt]_vars

\* ------------------------------------------------------------------ C15
\* C15: restoredAt is written only by a recovery (the email recovery or the
\* federated sign-in) of an identity that exists, and the write that first
\* produces an identity's profile, on any path, leaves it with createdAt set
\* and restoredAt absent.
C15_RestoredAtOnlyOnRecovery ==
  [][\A id \in DocIds :
       /\ FieldOf(users', id, "restoredAt") # FieldOf(users, id, "restoredAt") =>
            \E s \in Sessions :
              /\ sess[s].pc \in {"setupRestore", "gSetup"}
              /\ sess[s].cred.uid = id
              /\ sess[s].cred.email \in DOMAIN idp
              /\ sess[s].banRead # "banned"
       /\ (~DocExists(users, id) /\ DocExists(users', id)) =>
            /\ users'[id].createdAt # Undefined
            /\ users'[id].restoredAt = Undefined]_vars

\* ------------------------------------------------------------------ C16
\* C16: when createUserWithEmailAndPassword rejects with anything but
\* 'already exists', handleSubmit ends in Failed, showing the provider's
\* message: it has made no other remote call (no login, no profile read or
\* write), nothing is stored, nobody is signed in, success is not signalled;
\* the login is tried only when the identity exists.
C16_OtherFailureIsFailed ==
  [][\A s \in Sessions :
       /\ (sess[s].pc = "creating" /\ sess'[s].pc = "login") =>
            sess[s].formData.email \in DOMAIN idp
       /\ (/\ sess[s].pc = "creating"
           /\ sess'[s].pc \notin {"creating", "setupNew", "login"}) =>
            /\ sess'[s].pc = "idle"
            /\ sess'[s].caught \in ErrorMessages
            /\ sess'[s].error =
                 "Failed to register. " \o
                   (IF sess'[s].caught = "" THEN "Unknown error" ELSE sess'[s].caught)
            /\ sess'[s].calls = {"createIdentity"}
            /\ ~sess'[s].loading
            /\ sess'[s].onRegisterCalls = 0 /\ sess'[s].alertMsg = ""
            /\ sess'[s].currentUser = sess[s].currentUser
            /\ Backend' = Backend]_vars

\* the provider refuses the creation of an identity that does not exist yet
C16_Witness ==
  \E s \in Sessions :
    /\ sess[s].pc = "idle" /\ sess[s].handler = "handleSubmit"
    /\ sess[s].calls = {"createIdentity"}
    /\ sess[s].caught = "Firebase: Error (auth/network-request-failed)."
    /\ sess[s].error =
         "Failed to register. Firebase: Error (auth/network-request-failed)."
    /\ sess[s].formData.email \notin DOMAIN idp
    /\ users = <<>>

\* ------------------------------------------------------------------ C17
\* Verify & Enter is pressed, or Enter in the input of the modal
PanelAccessRuns(s) == handleAdminPanelAccess(s)

\* onNavigate is called with the management surface
EntersManagement(s) ==
  /\ sess'[s].onNavigateCalls # sess[s].onNavigateCalls
  /\ sess'[s].onNavigateCalls[Len(sess'[s].onNavigateCalls)] = "admin-management"

C18_NoSelfBan ==
  /\ lastWrite["uidA"] \notin {"ban", "unban"}
  /\ ui.actionType \in {"ban", "unban"} =>
       /\ ui.selectedAdmin # "uidA"
       /\ ui.admins[ui.selectedAdmin].email # "a@x.io"
  /\ \A op \in DOMAIN ui.flight : op.type \in {"ban", "unban"} => op.id # "uidA"
  /\ ui.lastExec # <<>> => ui.lastExec[1] # "uidA"
  /\ DocExists(users, "uidA") => users["uidA"].status # "banned"

\* the roster shows the caller's own entry next to one the caller has banned
C18_Witness ==
  /\ "uidA" \in DOMAIN ui.admins
  /\ ui.admins["uidA"].email = "a@x.io"
  /\ ui.lastExec = <<"uidB", "active", "banned">>
  /\ users["uidB"].status = "banned"
  /\ users["uidA"].status = "active"

\* ------------------------------------------------------------------ C19
\* the store accepts the write that the call op of handleExecute awaits
StatusExecuted(op) == op.type \in {"ban", "unban"} /\ ExecuteStatusOk(op)

\* C19: a ban or an unban writes the status of the selected profile and
\* nothing else: every other field of it and every other profile, identity
\* and configuration record stay as they were; on a profile that already has
\* that status it succeeds, sets no error and leaves the store as it was.
C19_StatusOnlyWrite ==
  [][\A op \in DOMAIN ui.flight : StatusExecuted(op) =>
       LET id == op.id
           target == IF op.type = "ban" THEN "banned" ELSE "active"
       IN /\ DOMAIN users' = DOMAIN users
          /\ \A d \in DOMAIN users : \A f \in ProfileFields :
               (d # id \/ f # "status") => users'[d][f] = users[d][f]
          /\ users'[id].status = target
          /\ ui'.errorMsg = ui.errorMsg
          /\ op.live => ui'.actionType = Null /\ ui'.admins[id].status = target
          /\ users[id].status = target => users' = users
          /\ idp' = idp /\ settings' = settings]_vars

\* an unban applied to a profile that was active already
C19_Witness ==
  /\ ui.lastExec = <<"uidB", "active", "active">>
  /\ ui.actionType = Null /\ ui.errorMsg = ""
  /\ ui.flight = EmptyBag
  /\ ui.admins["uidB"].status = "active"
  /\ users["uidB"].status = "active"
  /\ users["uidB"].role = "admin"
  /\ users["uidB"].email = "b@x.io"

\* ------------------------------------------------------------------ C20
\* C20: when the identity exists and its profile is missing, a handleSubmit
\* with the correct code and password is not stopped at the ban check (a
\* missing profile is not a banned one) but goes on to the restore write, and
\* once that write is applied the attempt has returned Restored and the
\* identity has a profile with role = admin and status = active.
C20_MissingProfileRepaired ==
  [][\A s \in Sessions :
       LET uid == sess[s].cred.uid IN
       /\ (/\ sess[s].pc = "banCheck" /\ sess'[s].pc # "banCheck"
           /\ ~DocExists(users, uid)) =>
            \/ /\ sess'[s].pc = "setupRestore"
               /\ sess'[s].banRead = "missing"
               /\ sess'[s].currentUser = uid
               /\ users' = users
            \/ sess'[s].pc = "idle" /\ sess'[s].banRead = Null
       /\ (Written(s, "setupRestore") /\ ~DocExists(users, uid)) =>
            /\ Restored(s)'
            /\ sess[s].banRead = "missing"
            /\ ValidAdminForm(sess[s])
            /\ LoginAccepts(idp, sess[s].formData.email, sess[s].formData.password)
            /\ uid = UidOf(sess[s].formData.email)
            /\ DocExists(users', uid)
            /\ users'[uid].uid = uid
            /\ users'[uid].email = sess[s].formData.email
            /\ users'[uid].role = "admin"
            /\ users'[uid].status = "active"]_vars

\* the profile of uidB was first written by a recovery
C20_Witness ==
  \E s \in Sessions :
    /\ Restored(s)
    /\ sess[s].handler = "handleSubmit"
    /\ sess[s].banRead = "missing"
    /\ sess[s].formData.email = "b@x.io"
    /\ DocExists(users, "uidB")
    /\ users["uidB"].role = "admin" /\ users["uidB"].status = "active"
    /\ users["uidB"].createdAt = Undefined
    /\ lastWrite["uidB"] = "admin-restore"


\* ---- C21
\* both attempts ran to their end and the network failed no call of either
Settled(s) ==
  /\ sess[s].pc = "idle" /\ sess[s].handler = "handleSubmit"
  /\ "createIdentity" \in sess[s].calls
  /\ sess[s].fault = Null

\* C21: two attempts from two browsers for the same email, new when both
\* began, with the same password and a valid code: whatever the order of their
\* remote calls, when both have ended without a network failure one is
\* Created by createIdentity, login-free, and the other met the conflict,
\* logged in and is Restored; the store holds exactly one profile for the
\* email, with role = admin and status = active.
C21_OneCreatedOneRestored ==
  \A s, t \in Sessions :
    ( /\ s # t /\ Settled(s) /\ Settled(t)
      /\ sess[s].newEmail /\ sess[t].newEmail
      /\ sess[s].formData = sess[t].formData )
    => /\ \/ Created(s) /\ Restored(t)
          \/ Created(t) /\ Restored(s)
       /\ Created(s) => /\ sess[s].calls = {"createIdentity", "setDoc"}
                         /\ sess[t].calls = {"createIdentity", "login", "getDoc", "setDoc"}
       /\ sess[s].formData.email \in DOMAIN idp
       /\ {d \in DOMAIN users : users[d].email = sess[s].formData.email}
            = {UidOf(sess[s].formData.email)}
       /\ users[UidOf(sess[s].formData.email)].role = "admin"
       /\ users[UidOf(sess[s].formData.email)].status = "active"

\* the restore write landed before the creator's own profile write
C21_Witness ==
  /\ Created("S1") /\ Restored("S2")
  /\ sess["S1"].newEmail /\ sess["S2"].newEmail
  /\ sess["S1"].formData = sess["S2"].formData
  /\ lastWrite["uidB"] = "admin-new"
  /\ users["uidB"].restoredAt # Undefined
  /\ users["uidB"].role = "admin" /\ users["uidB"].status = "active"


\* ---- C22
\* C22: the form captures the expected code once, when it loads, and no later
\* step changes it; a submit validates the typed code against the captured
\* value, so after a rotation a form loaded before it still accepts the old
\* code and rejects the new one; a form that loads after the rotation
\* captures the new code.
C22_CodeCapturedOnce ==
  [][\A s \in Sessions :
       /\ ~sess[s].loadingCode =>
            /\ sess'[s].systemAdminCode = sess[s].systemAdminCode
            /\ ~sess'[s].loadingCode
       /\ (sess[s].loadingCode /\ sess'[s].codeRead = "ok") =>
            sess'[s].systemAdminCode = LatestCode
       /\ Starts(s, "handleSubmit") =>
            /\ (sess'[s].error = ErrInvalidCode) =
                 (sess'[s].formData.adminCode # sess[s].systemAdminCode)
            /\ sess'[s].formData.adminCode # sess[s].systemAdminCode =>
                 StopsAtValidation(s)
            /\ (/\ sess'[s].formData.adminCode = sess[s].systemAdminCode
                /\ sess'[s].formData.password = sess'[s].formData.confirmPassword
                /\ Len(sess'[s].formData.password) >= 6) =>
                 sess'[s].pc = "creating"]_vars

\* a form loaded before the rotation rejects the code rotated to
C22_Witness ==
  \E s \in Sessions :
    /\ sess[s].codeRead = "ok" /\ sess[s].loadedAt = 0
    /\ sess[s].systemAdminCode = "ADMIN2025"
    /\ ui.sets = <<"abcde">> /\ ExpectedCode(settings) = "abcde"
    /\ sess[s].handler = "handleSubmit"
    /\ sess[s].formData.adminCode = "abcde"
    /\ sess[s].error = ErrInvalidCode


\* ---- C23
\* C23: an attempt ends with the incorrect-password message exactly when
\* identity creation met the conflict and the login then failed; an attempt
\* whose login succeeded (the ban check was issued) never ends with it,
\* whatever later step failed.
C23_IncorrectOnlyOnLoginFailure ==
  \A s \in Sessions :
    sess[s].pc = "idle" =>
      (sess[s].error = ErrIncorrect)
        = ("login" \in sess[s].calls /\ "getDoc" \notin sess[s].calls)


\* ---- C25
\* C25: a submit of the loaded form reports the first failure in the order
\* code mismatch, password mismatch, weak password, stops there without a
\* remote call, and goes on to identity creation exactly when none of the
\* three applies.
C25_ValidationOrder ==
  [][\A s \in Sessions :
       Starts(s, "handleSubmit") =>
         LET f == sess'[s].formData
             codeMismatch == f.adminCode # sess[s].systemAdminCode
             pwMismatch == f.password # f.confirmPassword
             weak == Len(f.password) < 6
         IN /\ codeMismatch => sess'[s].error = ErrInvalidCode
            /\ (~codeMismatch /\ pwMismatch) => sess'[s].error = ErrPwMismatch
            /\ (~codeMismatch /\ ~pwMismatch /\ weak) => sess'[s].error = ErrWeakPw
            /\ (codeMismatch \/ pwMismatch \/ weak) => StopsAtValidation(s)
            /\ (sess'[s].pc = "creating") = ~(codeMismatch \/ pwMismatch \/ weak)
            /\ sess'[s].pc = "creating" =>
                 /\ sess'[s].error = "" /\ sess'[s].calls = {"createIdentity"}]_vars

\* a password both short and unconfirmed is reported as a mismatch
C25_Witness ==
  \E s \in Sessions :
    /\ sess[s].handler = "handleSubmit" /\ sess[s].pc = "idle"
    /\ ~sess[s].loadingCode
    /\ sess[s].formData.adminCode = sess[s].systemAdminCode
    /\ sess[s].formData.password = "abc"
    /\ sess[s].formData.confirmPassword = "secret1"
    /\ sess[s].error = ErrPwMismatch /\ sess[s].calls = {}


\* ---- C26
AdminHandlers == {"handleSubmit", "handleGoogleRegister"}

\* C26: onRegister is called at most once per attempt and only by the step
\* that ends the attempt in success; an attempt that shows an error
\* (validation, banned, incorrect password, failed) has not called it; in the
\* two admin flows the calling step is the one in which the profile write of
\* the attempt is applied to the store.
C26_OnRegisterOnlyOnSuccess ==
  [][\A s \in Sessions :
       /\ sess'[s].onRegisterCalls <= 1
       /\ sess'[s].error # "" => sess'[s].onRegisterCalls = 0
       /\ sess'[s].pc # "idle" => sess'[s].onRegisterCalls = 0
       /\ sess'[s].onRegisterCalls > sess[s].onRegisterCalls =>
            /\ sess[s].pc # "idle" /\ sess'[s].pc = "idle"
            /\ sess'[s].error = "" /\ ~sess'[s].loading
            /\ sess[s].handler \in AdminHandlers =>
                 /\ sess[s].pc \in {"setupNew", "setupRestore", "gSetup"}
                 /\ sess'[s].writeResult = "ok"
                 /\ users' = SetDocMerge(users, sess[s].cred.uid, sess[s].payload,
                                         EmptyDoc)
                 /\ users'[sess[s].cred.uid].role = "admin"
                 /\ users'[sess[s].cred.uid].status = "active"]_vars

\* a second attempt of the same browser, federated, signalled success once
C26_Witness ==
  \E s \in Sessions :
    /\ sess[s].handler = "handleGoogleRegister" /\ sess[s].attempts = 2
    /\ sess[s].pc = "idle" /\ sess[s].onRegisterCalls = 1
    /\ sess[s].writeResult = "ok"
    /\ DocExists(users, "uidB") /\ users["uidB"].restoredAt # Undefined


\* ---- C27
\* a handler of the admin form is started in session s
AdminStart(s) ==
  /\ sess[s].pc = "idle"
  /\ sess'[s].attempts = sess[s].attempts + 1
  /\ sess'[s].handler \in AdminHandlers

\* C27: when the read of the config record fails at form load, the expected
\* code is ADMIN2025 whatever code is stored, so a submit with ADMIN2025
\* passes the code check even after a rotation; while the code is still
\* loading, a submit by email or by the federated button does nothing: no
\* validation, no error, no remote call.
C27_FallbackAndLoadingGuard ==
  [][\A s \in Sessions :
       /\ (sess[s].loadingCode /\ sess'[s].codeRead = "failed") =>
            /\ sess'[s].systemAdminCode = "ADMIN2025"
            /\ ~sess'[s].loadingCode
       /\ (/\ AdminStart(s)
           /\ sess[s].codeRead = "failed"
           /\ sess'[s].formData.adminCode = "ADMIN2025") =>
            /\ sess'[s].error \notin {ErrInvalidCode, ErrGoogleCode}
            /\ sess'[s].handler = "handleGoogleRegister" => sess'[s].pc = "popup"
            /\ (/\ sess'[s].handler = "handleSubmit"
                /\ sess'[s].formData.password = sess'[s].formData.confirmPassword
                /\ Len(sess'[s].formData.password) >= 6) => sess'[s].pc = "creating"
       /\ (AdminStart(s) /\ sess[s].loadingCode) =>
            /\ sess'[s].pc = "idle"
            /\ sess'[s].error = ""
            /\ sess'[s].calls = {}
            /\ ~sess'[s].loading
            /\ sess'[s].onRegisterCalls = 0
            /\ sess'[s].currentUser = sess[s].currentUser
            /\ sess'[s].loadingCode
            /\ sess'[s].systemAdminCode = sess[s].systemAdminCode
            /\ Backend' = Backend]_vars

\* the read failed after the code was rotated, and ADMIN2025 registered an admin
C27_Witness ==
  \E s \in Sessions :
    /\ sess[s].codeRead = "failed" /\ sess[s].loadedAt = 1
    /\ ExpectedCode(settings) = "abcde"
    /\ sess[s].systemAdminCode = "ADMIN2025"
    /\ sess[s].formData.adminCode = "ADMIN2025"
    /\ sess[s].attempts = 2
    /\ Created(s)


\* ---- C28
\* C28: a profile write of the user registration flows (email or federated)
\* leaves status as it was, so a banned profile stays banned, and leaves
\* restoredAt and every other profile alone; uid, email, name, phone,
\* role = user, authProvider and createdAt are overwritten with the values
\* of the attempt.
C28_UserWriteKeepsStatus ==
  [][/\ \A s \in Sessions :
          (sess[s].pc \in UserSavePcs /\ sess'[s].pc = "idle" /\ users' # users) =>
            LET id == sess[s].cred.uid
                f == sess[s].formData
            IN /\ FieldOf(users', id, "status") = FieldOf(users, id, "status")
               /\ FieldOf(users', id, "restoredAt") = FieldOf(users, id, "restoredAt")
               /\ \A d \in DOMAIN users \ {id} : d \in DOMAIN users' /\ users'[d] = users[d]
               /\ DOMAIN users' = DOMAIN users \cup {id}
               /\ users'[id].uid = id
               /\ users'[id].email = sess[s].cred.email
               /\ users'[id].name = IF f.fullName # "" THEN f.fullName
                                    ELSE IF sess[s].cred.displayName \notin {Null, ""}
                                      THEN sess[s].cred.displayName
                                    ELSE "User"
               /\ users'[id].phone = f.phone
               /\ users'[id].role = "user"
               /\ users'[id].authProvider
                    = (IF sess[s].pc = "uSaveG" THEN "google" ELSE "email")
               /\ users'[id].createdAt = sess[s].payload.createdAt
               /\ users'[id].createdAt # Undefined
     /\ \A r \in Sessions :
          (sess'[r].late # sess[r].late /\ users' # users) =>
            \E w \in sess[r].late :
              /\ sess'[r].late = sess[r].late \ {w}
              /\ FieldOf(users', w.key, "status") = FieldOf(users, w.key, "status")
              /\ FieldOf(users', w.key, "restoredAt")
                   = FieldOf(users, w.key, "restoredAt")
              /\ \A d \in DOMAIN users \ {w.key} :
                   d \in DOMAIN users' /\ users'[d] = users[d]
              /\ DOMAIN users' = DOMAIN users \cup {w.key}
              /\ \A g \in ProfileFields \ {"status", "restoredAt"} :
                   users'[w.key][g] = w.data[g] /\ w.data[g] # Undefined
              /\ w.data.uid = w.key /\ w.data.role = "user"]_vars

\* the write of a sign-up that had timed out lands on a banned profile
C28_LateWitness ==
  \E s \in Sessions :
    /\ sess[s].writeResult = "timeout" /\ sess[s].late = {}
    /\ DocExists(users, "uidB")
    /\ lastWrite["uidB"] = "user"
    /\ users["uidB"].status = "banned"
    /\ users["uidB"].role = "user"

\* a banned admin signs up as a user with the federated button
C28_Witness ==
  /\ DocExists(users, "uidB")
  /\ lastWrite["uidB"] = "user"
  /\ users["uidB"].status = "banned"
  /\ users["uidB"].role = "user"
  /\ users["uidB"].authProvider = "google"
====
